---- MODULE Spec2Model ----
(***************************************************************************)
(* Model of bts_tools/views.py: the node registry lookups (find_node,      *)
(* find_local_node, set_rpchost), the /rpc gateway (json_rpc_call), the    *)
(* view wrappers (clear_rpc_cache, catch_error) and the seed node prober   *)
(* (check_seed_status, view_seed_nodes).                                   *)
(***************************************************************************)
EXTENDS Integers, Sequences, FiniteSets, TLC

VARIABLES
    nodes,          \* rpc.nodes: the registry, a sequence of node records
    main_node,      \* rpc.main_node: index into nodes, Null when unset
    is_online,      \* core.is_online
    rpc_cache,      \* per node: the keys held by the node's rpc cache
    rpc_log,        \* calls received by the underlying clients, in order
    op,             \* per /rpc thread: "idle", "rpc_call" (the handler waits
                    \* for its callee) or "json_rpc_call" (response delivered)
    c,              \* per /rpc thread: the envelope after the pops
    port,           \* per /rpc thread: local port
    proxy_user,     \* per /rpc thread: local proxy_user
    proxy_password, \* per /rpc thread: local proxy_password
    fwd_calls,      \* per /rpc thread: rpc.rpc_call invocations of the request
    local_calls,    \* per /rpc thread: getattr(node, method) invocations
    ret,            \* per /rpc thread: outcome of the handler, a return or a raise
    rpchost_pc,     \* set_rpchost: "idle", or "set_rpchost" (response delivered)
    rpchost_args,   \* set_rpchost: (bts_type, host, name) of the request
    rpchost_ret,    \* set_rpchost: outcome of the handler
    view_pc,        \* view request in flight: "idle", "body", "rpc_call", "done"
    view_name,      \* route function of the view request
    view_pos,       \* statement the view body is at
    view_cleared,   \* node whose cache the request's wrapper cleared
    view_n,         \* view_info: the local n, Null before line 248
    view_target,    \* node read for the body's call, kept while it is in flight
    view_args,      \* arguments of the body's call in flight
    view_ncalls,    \* node calls of the view body answered so far
    view_val,       \* view body: the answer of info() or of status()
    view_i,         \* view_info: committee members already named (line 253)
    view_ret,       \* outcome of the view request
    endpoints,      \* how each seed endpoint answers a connect and a recv
    seed_nodes,     \* view_seed_nodes: the endpoint list
    seed_status,    \* view_seed_nodes: dict seed -> status
    threads,        \* view_seed_nodes: per endpoint, the probe unit
    orch,           \* view_seed_nodes: position of the orchestrator
    now,            \* prober clock, in seconds
    data,           \* view_seed_nodes: the (seed, status) list of line 567
    columns         \* view_seed_nodes: data after split_columns (line 576)

gwvars == <<c, port, proxy_user, proxy_password, fwd_calls, local_calls>>
regvars == <<nodes, main_node>>
rpchostvars == <<rpchost_pc, rpchost_args, rpchost_ret>>
viewvars == <<view_pc, view_name, view_pos, view_cleared, view_n, view_target,
              view_args, view_ncalls, view_val, view_i, view_ret>>
probevars == <<endpoints, seed_nodes, seed_status, threads, orch, now, data,
               columns>>
vars == <<nodes, main_node, is_online, rpc_cache, rpc_log, op, c, port,
          proxy_user, proxy_password, fwd_calls, local_calls, ret,
          rpchost_pc, rpchost_args, rpchost_ret,
          view_pc, view_name, view_pos, view_cleared, view_n, view_target,
          view_args, view_ncalls, view_val, view_i, view_ret,
          endpoints, seed_nodes,
          seed_status, threads, orch, now, data, columns>>

----------------------------------------------------------------------------
(* Values *)

Null == 0
None == -1          \* Python None for an absent wallet_port
NoRequest == [id |-> None]

Node(t, h, p, n, l, u, pw, r) ==
    [bts_type |-> t, rpc_host |-> h, rpc_port |-> p, name |-> n,
     is_localhost |-> l, rpc_user |-> u, rpc_password |-> pw, role |-> r]

NodeA  == Node("bts",  "localhost", 1234, "nodeA", TRUE,  "userA", "pwA", "seed")
NodeA2 == Node("bts",  "localhost", 1234, "nodeA", TRUE,  "userA2", "pwA2", "seed")
NodeB  == Node("bts",  "10.0.0.2",  1234, "nodeB", FALSE, "userB", "pwB", "witness")
NodeC  == Node("muse", "localhost", 5678, "nodeC", TRUE,  "userC", "pwC", "witness")
NodeD  == Node("muse", "localhost", 1234, "nodeA", TRUE,  "userD", "pwD", "seed")
NodeE  == Node("bts1", "localhost", 5678, "nodeE", TRUE,  "userE", "pwE", "witness")

\* node.is_graphene_based(), node.is_witness(): read from the node, no rpc call
is_graphene_based(node) == node.bts_type \in {"bts", "muse"}
is_witness(node) == node.role = "witness"

\* The registries the program is started with.
Registries ==
    { <<>>, <<NodeA>>, <<NodeB, NodeC>>, <<NodeB, NodeA, NodeC>>,
      <<NodeA, NodeA2>>, <<NodeD, NodeA>>, <<NodeE>> }

Ports == {1234, 5678, 9999, None}

\* '{}'.format(port)
PortStr(p) ==
    CASE p = 1234 -> "1234"
      [] p = 5678 -> "5678"
      [] p = 9999 -> "9999"
      [] p = None -> "None"

\* '{}:{}'.format(node.rpc_host, node.rpc_port)
HostPort(node) == node.rpc_host \o ":" \o PortStr(node.rpc_port)

----------------------------------------------------------------------------
(* Registry lookups *)

Raise(e, m) == [kind |-> "raise", exc |-> e, msg |-> m]
Return(v) == [kind |-> "return", value |-> v]
NoRet == [kind |-> "none"]

find_node_match_nohost(node, bts_type, host, name) ==
    /\ node.bts_type = bts_type
    /\ node.name = name

find_node_match(node, bts_type, host, name) ==
    /\ node.bts_type = bts_type
    /\ HostPort(node) = host
    /\ node.name = name

\* for node in rpc.nodes: if <match>: return node; raise ValueError
RECURSIVE find_node_from(_, _, _, _)
find_node_from(i, bts_type, host, name) ==
    IF i > Len(nodes)
    THEN Raise("ValueError", "Node not found: " \o bts_type \o "/" \o host \o "/" \o name)
    ELSE IF find_node_match(nodes[i], bts_type, host, name)
         THEN Return(i)
         ELSE find_node_from(i + 1, bts_type, host, name)

find_node(bts_type, host, name) == find_node_from(1, bts_type, host, name)

find_local_node_match_anyhost(node, p) == node.rpc_port = p

find_local_node_match(node, p) == node.is_localhost /\ node.rpc_port = p

RECURSIVE find_local_node_from(_, _)
find_local_node_from(i, p) ==
    IF i > Len(nodes)
    THEN Raise("ValueError", "Node not found: localhost:" \o PortStr(p))
    ELSE IF find_local_node_match(nodes[i], p)
         THEN Return(i)
         ELSE find_local_node_from(i + 1, p)

find_local_node(p) == find_local_node_from(1, p)

----------------------------------------------------------------------------
(* The /rpc gateway: json_rpc_call *)

MaxCalls == 2       \* length of rpc_log up to which the gateway's calls are followed
MaxLog == 3         \* length of rpc_log up to which the views' calls are followed

Ids == {3, 7}
Args == {<<>>, <<"a">>}
InterceptedNoSet ==
    {"is_signing_key_active", "network_get_info", "network_get_connected_peers",
     "network_get_potential_peers", "network_get_advanced_parameters"}

\* the list of views.py:221-223
Intercepted ==
    {"is_signing_key_active", "network_get_info", "network_get_connected_peers",
     "network_get_potential_peers", "network_get_advanced_parameters",
     "network_set_advanced_parameters"}

\* a method the node answers itself, without a call to the client: the
\* methods the gateway hands to the node (views.py:221-225)
LocalMethod(method) == method \in Intercepted

\* the method names callers send: the six of the list, and a wallet method
Methods ==
    {"is_signing_key_active", "network_get_info", "network_get_connected_peers",
     "network_get_potential_peers", "network_get_advanced_parameters",
     "network_set_advanced_parameters", "info"}
ProxyUsers == {"mallory"}
ProxyPasswords == {"hunter2"}

Absent == "absent"

\* The JSON object of the request body; optional keys may be missing.
Envelope(i, m, a, wp, pu, pp) ==
    LET base == [id |-> i, method |-> "call", params |-> <<0, m, a>>]
        e1 == IF wp = None THEN base ELSE ("wallet_port" :> wp) @@ base
        e2 == IF pu = Absent THEN e1 ELSE ("proxy_user" :> pu) @@ e1
    IN  IF pp = Absent THEN e2 ELSE ("proxy_password" :> pp) @@ e2

Envelopes ==
    { Envelope(i, m, a, wp, pu, pp) :
        i \in Ids, m \in Methods, a \in Args, wp \in Ports,
        pu \in ProxyUsers \cup {Absent}, pp \in ProxyPasswords \cup {Absent} }

\* dict.pop(k, default): the value, and the dict without the key
PopValue(d, k, default) == IF k \in DOMAIN d THEN d[k] ELSE default
PopRest(d, k) == [x \in DOMAIN d \ {k} |-> d[x]]

\* result['id'] = v
KeepItem(d, k, v) == IF k \in DOMAIN d THEN d ELSE [x \in DOMAIN d \cup {k} |-> IF x = k THEN v ELSE d[x]]

SetItem(d, k, v) == [x \in DOMAIN d \cup {k} |-> IF x = k THEN v ELSE d[x]]

\* What the callee of the gateway can answer: the raw JSON response of the
\* client, a returned value of a node method, or an exception.
RawResponses ==
    { [id |-> 1, result |-> "r"],
      [id |-> 1, error |-> [message |-> "upstream failure"]] }

\* str(e) of the RPCError rpc_call raises when the client drops the connection
ConnectionAbortedMsg ==
    "('Connection aborted.', ConnectionRefusedError(111, 'Connection refused'))"

Raises ==
    { Raise("RPCError", "assert failed"),
      Raise("RPCError", ConnectionAbortedMsg),
      Raise("ConnectionError", "refused"),
      Raise("UnauthorizedError", ""),
      Raise("ValueError", "bad json") }

\* the value a node method returns
Value == [connections |-> "5"]

FwdOutcomes == { Return(r) : r \in RawResponses } \cup Raises
LocalOutcomes == { Return(Value) } \cup Raises

RpcCall(host, p, user, password, method, args) ==
    [host |-> host, port |-> p, user |-> user, password |-> password,
     method |-> method, args |-> args]

CacheKey(method, args, out) == <<method, args, out>>

Cached(i, method, args) ==
    { k \in rpc_cache[i] : k[1] = method /\ k[2] = args }

\* the node's cached call (cached=True): a hit answers from the cache, a
\* miss calls the client and stores the outcome
cached_call(i, method, args, out) ==
    IF Cached(i, method, args) # {}
    THEN [calls |-> <<>>,
          cache |-> rpc_cache,
          out |-> (CHOOSE k \in Cached(i, method, args) : TRUE)[3]]
    ELSE [calls |-> << RpcCall(nodes[i].rpc_host, nodes[i].rpc_port,
                               nodes[i].rpc_user, nodes[i].rpc_password,
                               method, args) >>,
          cache |-> [rpc_cache EXCEPT ![i] = @ \cup {CacheKey(method, args, out)}],
          out |-> out]

\* rpc.rpc_call(host, port, user, password, method, *params), the real call
\* behind the node's cached call: one call to the client, whose answer is
\* out; it is given no node and no cache
rpc_call(host, p, user, password, method, args, out) ==
    [calls |-> << RpcCall(host, p, user, password, method, args) >>,
     cache |-> rpc_cache,
     out |-> out]

forward_credentials_proxy(node, pu, pp) ==
    IF pu = "" THEN <<node.rpc_user, node.rpc_password>> ELSE <<pu, pp>>

\* user = node.rpc_user; password = node.rpc_password
forward_credentials(node, pu, pp) == <<node.rpc_user, node.rpc_password>>

NotFoundMessage(p) == "Could not find active node on port " \o PortStr(p)

\* the threads of the server that handle /rpc requests at the same time
GwThreads == {1, 2}

\* json_rpc_call from the parsed envelope to the call it makes
\* (views.py:208-227): the locals after the pops, the lookup, and the call
\* handed to the node's own method or to rpc.rpc_call.
json_rpc_call_request(env) ==
    LET method == env.params[2]
        params == env.params[3]
        p == PopValue(env, "wallet_port", None)
        c1 == PopRest(env, "wallet_port")
        pu == PopValue(c1, "proxy_user", "")
        c2 == PopRest(c1, "proxy_user")
        pp == PopValue(c2, "proxy_password", "")
        c3 == PopRest(c2, "proxy_password")
        found == find_local_node(p)
        node == nodes[found.value]
        cred == forward_credentials(node, pu, pp)
    IN  [c |-> c3, port |-> p, proxy_user |-> pu, proxy_password |-> pp,
         found |-> found,
         local |-> IF found.kind = "return" /\ method \in Intercepted
                   THEN << [node |-> found.value, method |-> method, args |-> params] >>
                   ELSE <<>>,
         fwd |-> IF found.kind = "return" /\ method \notin Intercepted
                 THEN rpc_call("localhost", p, cred[1], cred[2], method, params, NoRet).calls
                 ELSE <<>>]

\* json_rpc_call from the answer of the callee to the response
\* (views.py:225-238): result['id'] = c['id'], and the two except clauses;
\* out is what the try block got, a value or an exception.
json_rpc_call_response(cc, p, out) ==
    IF out.kind = "raise"
    THEN IF out.exc = "ValueError"
         THEN Return([id |-> cc.id, error |-> [message |-> NotFoundMessage(p)]])
         ELSE IF out.exc = "RPCError"
         THEN Return([id |-> cc.id, error |-> [message |-> out.msg]])
         ELSE out
    ELSE IF cc.params[2] \in Intercepted
    THEN Return(SetItem([result |-> out.value], "id", cc.id))
    ELSE Return(SetItem(out.value, "id", cc.id))

\* The answers the callee of a waiting handler can give.
OutcomesFor(cc) ==
    IF cc.params[2] \in Intercepted THEN LocalOutcomes ELSE FwdOutcomes

\* A /rpc request arrives on thread s: the handler runs up to its call and
\* waits for the answer; when the lookup fails it answers at once.
json_rpc_call(s, env) ==
    /\ op[s] = "idle"
    /\ \E r \in {json_rpc_call_request(env)} :
        /\ Len(rpc_log) + Len(r.fwd) <= MaxCalls
        /\ c' = [c EXCEPT ![s] = r.c]
        /\ port' = [port EXCEPT ![s] = r.port]
        /\ proxy_user' = [proxy_user EXCEPT ![s] = r.proxy_user]
        /\ proxy_password' = [proxy_password EXCEPT ![s] = r.proxy_password]
        /\ fwd_calls' = [fwd_calls EXCEPT ![s] = r.fwd]
        /\ local_calls' = [local_calls EXCEPT ![s] = r.local]
        /\ rpc_log' = rpc_log \o r.fwd
        /\ IF r.found.kind = "raise"
           THEN /\ op' = [op EXCEPT ![s] = "json_rpc_call"]
                /\ ret' = [ret EXCEPT ![s] = json_rpc_call_response(r.c, r.port, r.found)]
           ELSE /\ op' = [op EXCEPT ![s] = "rpc_call"]
                /\ UNCHANGED ret
    /\ UNCHANGED <<regvars, rpchostvars, is_online, rpc_cache, viewvars, probevars>>

\* The callee of thread s answers: the handler builds its response.
json_rpc_call_return(s, out) ==
    /\ op[s] = "rpc_call"
    /\ LET node == nodes[find_local_node(port[s]).value]
           cred == forward_credentials(node, proxy_user[s], proxy_password[s])
           fwd == rpc_call("localhost", port[s], cred[1], cred[2],
                           c[s].params[2], c[s].params[3], out)
       IN  IF c[s].params[2] \in Intercepted
           THEN /\ ret' = [ret EXCEPT ![s] = json_rpc_call_response(c[s], port[s], out)]
                /\ UNCHANGED rpc_cache
           ELSE /\ ret' = [ret EXCEPT ![s] = json_rpc_call_response(c[s], port[s], fwd.out)]
                /\ rpc_cache' = fwd.cache
    /\ op' = [op EXCEPT ![s] = "json_rpc_call"]
    /\ UNCHANGED <<regvars, rpchostvars, is_online, rpc_log, gwvars, viewvars, probevars>>

----------------------------------------------------------------------------
(* set_rpchost *)

BtsTypes == {"bts", "muse"}
Hosts == {"localhost:1234", "10.0.0.2:1234", "localhost:5678", "localhost:9999"}
Names == {"nodeA", "nodeB", "nodeC"}
Url == "/info"

set_main_node_reset(found) == IF found.kind = "return" THEN found.value ELSE Null

set_main_node_unregistered(found) ==
    IF found.kind = "return" THEN found.value ELSE Len(nodes) + 1

\* try: rpc.main_node = find_node(...)  except ValueError: pass
set_main_node(found) == IF found.kind = "return" THEN found.value ELSE main_node

\* the handler makes no call that waits: lookup, assignment, redirect
set_rpchost(bts_type, host, name) ==
    /\ rpchost_pc = "idle"
    /\ rpchost_pc' = "set_rpchost"
    /\ rpchost_args' = <<bts_type, host, name>>
    /\ main_node' = set_main_node(find_node(bts_type, host, name))
    /\ rpchost_ret' = Return([redirect |-> Url])
    /\ UNCHANGED <<nodes, is_online, rpc_cache, rpc_log, op, ret, gwvars, viewvars,
                   probevars>>

\* the redirect of set_rpchost is delivered
set_rpchost_done ==
    /\ rpchost_pc = "set_rpchost"
    /\ rpchost_pc' = "idle"
    /\ rpchost_args' = <<>>
    /\ rpchost_ret' = NoRet
    /\ UNCHANGED <<nodes, main_node, is_online, rpc_cache, rpc_log, op, ret, gwvars,
                   viewvars, probevars>>

----------------------------------------------------------------------------
(* The views, wrapped by clear_rpc_cache and catch_error.  One request of
   a wrapped view is followed at a time, beside the /rpc and the set_rpchost
   requests. *)

MaxViewCalls == 3   \* node calls of one view request that are followed

\* the route functions behind @clear_rpc_cache @catch_error that take no
\* input of the model; view_seed_nodes, which takes the seed list of the
\* chain, is the action view_seed_nodes(list)
Views ==
    { "view_status", "view_info", "view_witness", "view_delegates",
      "view_backbone_nodes", "view_connected_peers", "view_potential_peers",
      "view_logs" }

WitnessName == "nodeA"          \* <witness_name> of /witness/<witness_name>
VisibleFeeds == "visible_feeds" \* feeds.visible_feeds
CommitteeMembers == { <<>>, <<"1.5.0">>, <<"1.5.0", "1.5.1">> }
NoValue == [none |-> TRUE]

\* what a call of the given node method can answer
ViewAnswers(method) ==
    IF method = "info"
    THEN { [active_committee_members |-> cms] : cms \in CommitteeMembers }
    ELSE IF method = "status"
    THEN { [status |-> "online"], [status |-> "unauthorized"] }
    ELSE { Value }

ViewOutcomes(method) == { Return(v) : v \in ViewAnswers(method) } \cup Raises

\* The statements of a view body.  A position is 10 * line + k, k counting
\* the reads of rpc.main_node and the calls within the line.
\*   call:   a call of a node method, made on the local n
\*           ("n"), on rpc.main_node read at the call ("main_node") or on
\*           the rpc.main_node read by the step before ("target");
\*   if:     a branch on a property read from n, rpc.main_node or the
\*           answer held by the body;
\*   bind:   n = rpc.main_node;
\*   target: the read of rpc.main_node in rpc.main_node.m(rpc.main_node.name);
\*   for:    the comprehension over info['active_committee_members'];
\*   either: a branch on the configuration: backbone.node_list(..) is
\*           empty or not;
\*   threads: view_seed_nodes starts its probe threads, joins them and
\*           builds its page (the steps of the seed nodes section);
\*   return: the body returns a page.
ICall(via, method, arg, store, next) ==
    [op |-> "call", via |-> via, method |-> method, arg |-> arg, store |-> store,
     next |-> next]
IIf(cond, on, then, else) ==
    [op |-> "if", cond |-> cond, on |-> on, then |-> then, else |-> else]
IBind(next) == [op |-> "bind", next |-> next]
ITarget(next) == [op |-> "target", next |-> next]
IFor(method, next) ==
    [op |-> "for", via |-> "n", method |-> method, arg |-> "cm", next |-> next]
IReturn(page) == [op |-> "return", page |-> page]
IThreads == [op |-> "threads"]
IEither(then, else) == [op |-> "either", then |-> then, else |-> else]

Entry(view) ==
    CASE view = "view_status" -> 1280
      [] view = "view_info" -> 2470
      [] view = "view_witness" -> 3760
      [] view = "view_delegates" -> 3920
      [] view = "view_backbone_nodes" -> 4190
      [] view = "view_connected_peers" -> 5890
      [] view = "view_potential_peers" -> 6170
      [] view = "view_seed_nodes" -> 5420
      [] view = "view_logs" -> 6780

\* The statements of view_info between lines 258 and 300 read
\* rpc.main_node for the layout of the page only and are left out.
Instr(pos) ==
    CASE \* view_status
         pos = 1280 -> ICall("main_node", "status", "none", TRUE, 1281)
      [] pos = 1281 -> IIf("unauthorized", "val", 1290, 1430)
      [] pos = 1290 -> IReturn("unauthorized")
      [] pos = 1430 -> IReturn("page")
         \* view_info
      [] pos = 2470 -> IIf("graphene", "main_node", 2480, 2570)
      [] pos = 2480 -> IBind(2490)
      [] pos = 2490 -> ICall("n", "info", "none", TRUE, 2510)
      [] pos = 2510 -> ICall("n", "get_active_witnesses", "none", FALSE, 2520)
      [] pos = 2520 -> IIf("bts_or_muse", "n", 2530, 3020)
      [] pos = 2530 -> IFor("get_committee_member_name", 3020)
      [] pos = 2570 -> ICall("main_node", "get_info", "none", FALSE, 3020)
      [] pos = 3020 -> IIf("witness", "main_node", 3021, 3420)
      [] pos = 3021 -> IIf("bts_or_bts1", "main_node", 3050, 3420)
      [] pos = 3050 -> IIf("graphene", "main_node", 3060, 3110)
      [] pos = 3060 -> ITarget(3061)
      [] pos = 3061 -> ICall("target", "get_witness_feeds", "name_feeds", FALSE, 3090)
      [] pos = 3090 -> ICall("main_node", "get_blockchain_feeds", "feeds", FALSE, 3420)
      [] pos = 3110 -> ITarget(3111)
      [] pos = 3111 -> ICall("target", "blockchain_get_feeds_from_delegate", "name",
                             FALSE, 3420)
      [] pos = 3420 -> IIf("witness", "main_node", 3421, 3500)
      [] pos = 3421 -> IIf("graphene", "main_node", 3430, 3500)
      [] pos = 3430 -> ITarget(3431)
      [] pos = 3431 -> ICall("target", "get_witness", "name", FALSE, 3500)
      [] pos = 3500 -> IReturn("page")
         \* view_witness
      [] pos = 3760 -> IIf("graphene", "main_node", 3770, 3790)
      [] pos = 3770 -> ICall("main_node", "get_witness", "witness_name", FALSE, 3830)
      [] pos = 3790 -> ICall("main_node", "get_info", "none", FALSE, 3830)
      [] pos = 3830 -> IReturn("page")
         \* view_delegates
      [] pos = 3920 -> IIf("graphene", "main_node", 3930, 3940)
      [] pos = 3930 -> IReturn("redirect")
      [] pos = 3940 -> ICall("main_node", "blockchain_list_delegates", "0_300", FALSE,
                             3970)
      [] pos = 3970 -> ICall("main_node", "get_info", "none", FALSE, 4080)
      [] pos = 4080 -> IReturn("page")
         \* view_backbone_nodes
      [] pos = 4190 -> ICall("main_node", "network_get_connected_peers", "none", FALSE,
                             4290)
      [] pos = 4290 -> IEither(4320, 4520)
      [] pos = 4320 -> IReturn("error")
      [] pos = 4520 -> IReturn("page")
         \* view_seed_nodes
      [] pos = 5420 -> IThreads
         \* view_connected_peers
      [] pos = 5890 -> ICall("main_node", "network_get_connected_peers", "none", FALSE,
                             6060)
      [] pos = 6060 -> IReturn("page")
         \* view_potential_peers
      [] pos = 6170 -> ICall("main_node", "network_get_potential_peers", "none", FALSE,
                             6420)
      [] pos = 6420 -> IReturn("page")
         \* view_logs
      [] pos = 6780 -> IReturn("page")

\* s in str(e)
Contains(s, t) ==
    \E i \in 1..(Len(s) - Len(t) + 1) : SubSeq(s, i, i + Len(t) - 1) = t

catch_error_always_offline(e) == [online |-> FALSE, page |-> "server_error"]

\* the except clauses of catch_error.wrapper, in their order
catch_error(e) ==
    IF e.exc = "ConnectionError"
    THEN [online |-> FALSE, page |-> "offline"]
    ELSE IF e.exc = "RPCError"
    THEN IF Contains(e.msg, "Connection aborted")
         THEN [online |-> FALSE, page |-> "offline"]
         ELSE [online |-> is_online, page |-> "server_error"]
    ELSE IF e.exc = "UnauthorizedError"
    THEN [online |-> is_online, page |-> "unauthorized"]
    ELSE [online |-> is_online, page |-> "server_error"]

clear_rpc_cache_noop(i) == rpc_cache

\* rpc.main_node.clear_rpc_cache()
clear_rpc_cache(i) == [rpc_cache EXCEPT ![i] = {}]

\* clear_rpc_cache.wrapper: rpc.main_node.clear_rpc_cache(), then the view
view_begin(view) ==
    /\ view_pc = "idle"
    /\ view_name' = view
    /\ IF main_node = Null
       THEN /\ view_ret' = Raise("AttributeError", "clear_rpc_cache")
            /\ view_pc' = "done"
            /\ UNCHANGED <<rpc_cache, view_cleared, view_pos>>
       ELSE /\ rpc_cache' = clear_rpc_cache(main_node)
            /\ view_cleared' = main_node
            /\ view_pc' = "body"
            /\ view_pos' = Entry(view)
            /\ UNCHANGED view_ret
    /\ UNCHANGED <<regvars, rpchostvars, is_online, rpc_log, op, ret, gwvars,
                   view_n, view_target, view_args, view_ncalls, view_val, view_i,
                   probevars>>

\* the condition of a branch, as the body reads it now
Cond(cond, on) ==
    LET node == IF on = "n" THEN nodes[view_n] ELSE nodes[main_node]
    IN  CASE cond = "graphene" -> is_graphene_based(node)
          [] cond = "witness" -> is_witness(node)
          [] cond = "bts_or_muse" -> node.bts_type \in {"bts", "muse"}
          [] cond = "bts_or_bts1" -> node.bts_type \in {"bts", "bts1"}
          [] cond = "unauthorized" -> view_val = [status |-> "unauthorized"]

\* The body runs a statement that makes no rpc call: a branch, n =
\* rpc.main_node, the read of the node a call is about to be made on, or the
\* end of the comprehension.  Each statement reads rpc.main_node when it
\* runs.
view_step ==
    /\ view_pc = "body"
    /\ LET in == Instr(view_pos)
       IN  \/ /\ in.op = "if"
              /\ view_pos' = IF Cond(in.cond, in.on) THEN in.then ELSE in.else
              /\ UNCHANGED <<view_n, view_target, view_i>>
           \/ /\ in.op = "either"
              /\ view_pos' \in {in.then, in.else}
              /\ UNCHANGED <<view_n, view_target, view_i>>
           \/ /\ in.op = "bind"
              /\ view_n' = main_node
              /\ view_pos' = in.next
              /\ UNCHANGED <<view_target, view_i>>
           \/ /\ in.op = "target"
              /\ view_target' = main_node
              /\ view_pos' = in.next
              /\ UNCHANGED <<view_n, view_i>>
           \/ /\ in.op = "for"
              /\ view_i >= Len(view_val.active_committee_members)
              /\ view_pos' = in.next
              /\ view_i' = 0
              /\ UNCHANGED <<view_n, view_target>>
    /\ UNCHANGED <<regvars, rpchostvars, is_online, rpc_cache, rpc_log, op, ret, gwvars,
                   view_name, view_pc, view_cleared, view_args, view_ncalls, view_val,
                   view_ret, probevars>>

\* the statement at view_pos makes an rpc call now
Calls(in) ==
    \/ in.op = "call"
    \/ in.op = "for" /\ view_i < Len(view_val.active_committee_members)

\* the node the call of the statement is made on
ViewTarget(in) ==
    CASE in.via = "n" -> view_n
      [] in.via = "main_node" -> main_node
      [] in.via = "target" -> view_target

\* the arguments of the call of the statement
ViewArgs(in) ==
    CASE in.arg = "none" -> <<>>
      [] in.arg = "cm" -> << view_val.active_committee_members[view_i + 1] >>
      [] in.arg = "name" -> << nodes[main_node].name >>
      [] in.arg = "name_feeds" -> << nodes[main_node].name, VisibleFeeds >>
      [] in.arg = "feeds" -> << VisibleFeeds >>
      [] in.arg = "witness_name" -> << WitnessName >>
      [] in.arg = "0_300" -> << "0", "300" >>

\* the body goes on after the answer v of the call of statement in
Answered(in, v) ==
    /\ view_ncalls' = view_ncalls + 1
    /\ IF in.op = "for"
       THEN /\ view_i' = view_i + 1
            /\ UNCHANGED <<view_pos, view_val>>
       ELSE /\ view_pos' = in.next
            /\ view_val' = IF in.store THEN v ELSE view_val
            /\ UNCHANGED view_i

\* the body is left, by a return or by an exception: its locals are gone
FrameGone ==
    /\ view_pos' = 0
    /\ view_n' = Null
    /\ view_val' = NoValue
    /\ view_i' = 0

\* The body makes its next call on the node.  A method the node answers
\* itself reaches neither the cache nor the client, and the body waits for
\* the node.  Any other method goes through the cache of the node: a hit is
\* answered at once, a miss goes to the client and the body waits.
view_call ==
    /\ view_pc = "body"
    /\ Calls(Instr(view_pos))
    /\ view_ncalls < MaxViewCalls
    /\ LET in == Instr(view_pos)
           r == IF LocalMethod(in.method)
                THEN [calls |-> <<>>, cache |-> rpc_cache, out |-> NoRet]
                ELSE cached_call(ViewTarget(in), in.method, ViewArgs(in), NoRet)
       IN  /\ Len(rpc_log) + Len(r.calls) <= MaxLog
           /\ rpc_log' = rpc_log \o r.calls
           /\ IF r.calls = <<>> /\ ~LocalMethod(in.method)
              THEN /\ Answered(in, r.out.value)
                   /\ view_target' = Null
                   /\ UNCHANGED <<view_pc, view_args>>
              ELSE /\ view_pc' = "rpc_call"
                   /\ view_target' = ViewTarget(in)
                   /\ view_args' = ViewArgs(in)
                   /\ UNCHANGED <<view_ncalls, view_pos, view_val, view_i>>
    /\ UNCHANGED <<regvars, rpchostvars, is_online, rpc_cache, op, ret, gwvars,
                   view_name, view_cleared, view_n, view_ret, probevars>>

\* The body's call is answered: a value of the client is stored in the
\* cache of the node the call was made on, a value of the node itself is
\* not, an exception ends in catch_error.
view_call_return(out) ==
    /\ view_pc = "rpc_call"
    /\ LET in == Instr(view_pos)
       IN  IF out.kind = "raise"
           THEN /\ is_online' = catch_error(out).online
                /\ view_ret' = Return(catch_error(out).page)
                /\ view_pc' = "done"
                /\ FrameGone
                /\ UNCHANGED <<rpc_cache, view_ncalls>>
           ELSE /\ rpc_cache' = IF LocalMethod(in.method)
                                THEN rpc_cache
                                ELSE cached_call(view_target, in.method, view_args, out).cache
                /\ Answered(in, out.value)
                /\ view_pc' = "body"
                /\ UNCHANGED <<is_online, view_ret, view_n>>
    /\ view_target' = Null
    /\ view_args' = <<>>
    /\ UNCHANGED <<regvars, rpchostvars, rpc_log, op, ret, gwvars, view_name,
                   view_cleared, probevars>>

\* the view body returns its page
view_return ==
    /\ view_pc = "body"
    /\ Instr(view_pos).op = "return"
    /\ view_pc' = "done"
    /\ view_ret' = Return(Instr(view_pos).page)
    /\ FrameGone
    /\ view_target' = Null
    /\ view_args' = <<>>
    /\ UNCHANGED <<regvars, rpchostvars, is_online, rpc_cache, rpc_log, op, ret, gwvars,
                   view_name, view_cleared, view_ncalls, probevars>>

\* the response of the /rpc request of thread s is delivered
request_done(s) ==
    /\ op[s] = "json_rpc_call"
    /\ op' = [op EXCEPT ![s] = "idle"]
    /\ c' = [c EXCEPT ![s] = NoRequest]
    /\ port' = [port EXCEPT ![s] = None]
    /\ proxy_user' = [proxy_user EXCEPT ![s] = ""]
    /\ proxy_password' = [proxy_password EXCEPT ![s] = ""]
    /\ fwd_calls' = [fwd_calls EXCEPT ![s] = <<>>]
    /\ local_calls' = [local_calls EXCEPT ![s] = <<>>]
    /\ ret' = [ret EXCEPT ![s] = NoRet]
    /\ UNCHANGED <<regvars, rpchostvars, is_online, rpc_cache, rpc_log, viewvars,
                   probevars>>

----------------------------------------------------------------------------
(* Specifications of the gateway and of the registry *)

EmptyDict == [x \in {} |-> "offline"]

\* the endpoint of the chain's seed list while the whole server runs: it
\* accepts the connection and sends its bytes two seconds later
OneEndpoint ==
    [x \in {"seed1:1776"} |->
        [connect |-> "accepted", cdelay |-> 0, recv |-> "data", rdelay |-> 2]]

ProbeIdle ==
    /\ seed_nodes = <<>>
    /\ seed_status = EmptyDict
    /\ threads = <<>>
    /\ orch = [pc |-> "idle", i |-> 0, deadline |-> 0, timeouts |-> {}]
    /\ now = 0
    /\ data = <<>>
    /\ columns = <<>>

\* no request is being served
NoRequests ==
    /\ op = [s \in GwThreads |-> "idle"]
    /\ c = [s \in GwThreads |-> NoRequest]
    /\ port = [s \in GwThreads |-> None]
    /\ proxy_user = [s \in GwThreads |-> ""]
    /\ proxy_password = [s \in GwThreads |-> ""]
    /\ fwd_calls = [s \in GwThreads |-> <<>>]
    /\ local_calls = [s \in GwThreads |-> <<>>]
    /\ ret = [s \in GwThreads |-> NoRet]
    /\ rpchost_pc = "idle"
    /\ rpchost_args = <<>>
    /\ rpchost_ret = NoRet
    /\ view_pc = "idle"
    /\ view_name = ""
    /\ view_pos = 0
    /\ view_cleared = Null
    /\ view_n = Null
    /\ view_target = Null
    /\ view_args = <<>>
    /\ view_ncalls = 0
    /\ view_val = NoValue
    /\ view_i = 0
    /\ view_ret = NoRet

Init ==
    /\ nodes \in Registries
    /\ main_node = IF nodes = <<>> THEN Null ELSE 1
    /\ is_online = TRUE
    /\ rpc_cache = [i \in 1..Len(nodes) |-> {}]
    /\ rpc_log = <<>>
    /\ NoRequests
    /\ ProbeIdle
    /\ endpoints = OneEndpoint

\* The gateway request that runs beside other requests: on thread 2 beside
\* the gateway request of thread 1, on thread 1 beside the views and
\* set_rpchost.
OtherEnvelopes == { Envelope(7, "info", <<>>, 1234, Absent, Absent) }

Gateway ==
    \/ \E env \in Envelopes : json_rpc_call(1, env)
    \/ \E env \in OtherEnvelopes : json_rpc_call(2, env)

GatewayReturn ==
    \/ /\ op[1] = "rpc_call"
       /\ \E out \in OutcomesFor(c[1]) : json_rpc_call_return(1, out)
    \/ /\ op[2] = "rpc_call"
       /\ \E out \in OutcomesFor(c[2]) : json_rpc_call_return(2, out)

RequestDone == \E s \in GwThreads : request_done(s)

NextGw == Gateway \/ GatewayReturn \/ RequestDone

SpecGw == Init /\ [][NextGw]_vars

\* The set_rpchost requests that run beside the views and the gateway: a
\* node of the larger registries, and a triple that no node has.
RpcHostTriples ==
    { <<"muse", "localhost:5678", "nodeC">>, <<"bts", "localhost:9999", "nodeA">> }

SetRpcHost == \E a \in RpcHostTriples : set_rpchost(a[1], a[2], a[3])

ViewBegin == \E view \in Views : view_begin(view)

ViewCallReturn ==
    /\ view_pc = "rpc_call"
    /\ \E out \in ViewOutcomes(Instr(view_pos).method) : view_call_return(out)

GatewayFew == \E env \in OtherEnvelopes : json_rpc_call(1, env)

GatewayFewReturn ==
    /\ op[1] = "rpc_call"
    /\ \E out \in OutcomesFor(c[1]) : json_rpc_call_return(1, out)


----------------------------------------------------------------------------
(* The seed node prober: check_seed_status and view_seed_nodes *)

MaxSeeds == 2       \* endpoints in the list of one batch

SocketTimeout == 3  \* s.settimeout(3)
JoinTimeout == 5    \* t.join(timeout=5)

Seeds == {"seed1:1776", "seed2:1776"}

\* An endpoint answers the connect (refused, no answer, another OS error,
\* or accepted after cdelay seconds) and, once connected, the recv (bytes
\* after rdelay seconds, an orderly close, silence, or a reset).
Behaviour(cn, cd, rv, rd) == [connect |-> cn, cdelay |-> cd, recv |-> rv, rdelay |-> rd]

Behaviours ==
    { Behaviour("refused", 0, "none", 0),
      Behaviour("timeout", SocketTimeout, "none", 0),
      Behaviour("oserror", 0, "none", 0) }
    \cup { Behaviour("accepted", cd, "data", rd) : cd \in {0, SocketTimeout}, rd \in {0, 2} }
    \cup { Behaviour("accepted", cd, "closed", 0) : cd \in {0, SocketTimeout} }
    \cup { Behaviour("accepted", cd, "timeout", SocketTimeout) : cd \in {0, SocketTimeout} }
    \cup { Behaviour("accepted", cd, "reset", 0) : cd \in {0, SocketTimeout} }

RECURSIVE SeqsUpTo(_, _)
SeqsUpTo(S, n) ==
    IF n = 0 THEN { <<>> }
    ELSE SeqsUpTo(S, n - 1)
         \cup { Append(q, x) : q \in { r \in SeqsUpTo(S, n - 1) : Len(r) = n - 1 }, x \in S }

\* the seed_nodes list of the chain
SeedLists == SeqsUpTo(Seeds, MaxSeeds)

Range(q) == { q[k] : k \in 1..Len(q) }

\* dict.get(k, default)
Get(d, k, default) == IF k \in DOMAIN d THEN d[k] ELSE default

Alive(t) == t.pc \in {"connecting", "reading"}

\* the endpoints of the requested chain, before the request is served
InitProber ==
    /\ endpoints \in UNION { [D -> Behaviours] : D \in SUBSET Seeds }
    /\ seed_nodes = <<>>
    /\ seed_status = EmptyDict
    /\ threads = <<>>
    /\ orch = [pc |-> "idle", i |-> 0, deadline |-> 0, timeouts |-> {}]
    /\ now = 0
    /\ data = <<>>
    /\ columns = <<>>

gwidle == <<nodes, main_node, is_online, rpc_cache, rpc_log, op, ret, gwvars,
            rpchostvars, viewvars>>

\* GET /network/<chain>/seednodes: the clear_rpc_cache wrapper, then the
\* body up to the list of the chain (views.py:476-542). Without a main node
\* the wrapper raises and the body does not run.
view_seed_nodes(list) ==
    /\ view_pc = "idle"
    /\ orch.pc = "idle"
    /\ Range(list) = DOMAIN endpoints
    /\ view_name' = "view_seed_nodes"
    /\ IF main_node = Null
       THEN /\ orch' = [orch EXCEPT !.pc = "raised"]
            /\ view_ret' = Raise("AttributeError", "clear_rpc_cache")
            /\ view_pc' = "done"
            /\ UNCHANGED <<rpc_cache, seed_nodes, view_cleared, view_pos>>
       ELSE /\ rpc_cache' = clear_rpc_cache(main_node)
            /\ seed_nodes' = list
            /\ orch' = [orch EXCEPT !.pc = "start", !.i = 1]
            /\ view_cleared' = main_node
            /\ view_pc' = "body"
            /\ view_pos' = Entry("view_seed_nodes")
            /\ UNCHANGED view_ret
    /\ UNCHANGED <<nodes, main_node, is_online, rpc_log, op, ret, gwvars, rpchostvars,
                   view_n, view_target, view_args, view_ncalls, view_val, view_i,
                   endpoints, seed_status, threads, now, data, columns>>

\* t = threading.Thread(target=set_seed_status, args=(seed,)); t.start()
\* the unit creates its socket and calls connect
start_thread ==
    /\ orch.pc = "start"
    /\ orch.i <= Len(seed_nodes)
    /\ threads' = Append(threads,
                         [seed |-> seed_nodes[orch.i],
                          pc |-> "connecting",
                          due |-> now + endpoints[seed_nodes[orch.i]].cdelay,
                          sock |-> "open"])
    /\ orch' = [orch EXCEPT !.i = @ + 1]
    /\ UNCHANGED <<gwidle, endpoints, seed_nodes, seed_status, now, data, columns>>

threads_created_early ==
    /\ orch.pc = "start"
    /\ orch.i > 1
    /\ orch' = [orch EXCEPT !.pc = "join", !.i = 1, !.deadline = now + JoinTimeout]
    /\ UNCHANGED <<gwidle, endpoints, seed_nodes, seed_status, threads, now, data, columns>>

\* the loop over seed_nodes is over; the orchestrator enters the join loop
threads_created ==
    /\ orch.pc = "start"
    /\ orch.i > Len(seed_nodes)
    /\ orch' = [orch EXCEPT !.pc = "join", !.i = 1, !.deadline = now + JoinTimeout]
    /\ UNCHANGED <<gwidle, endpoints, seed_nodes, seed_status, threads, now, data, columns>>

recv_returns_blocking(b) ==
    IF b.recv = "timeout" THEN now + 2 * JoinTimeout ELSE now + b.rdelay

\* the time at which s.recv(256) returns or raises: the peer's answer, or
\* socket.timeout after the 3 seconds of s.settimeout(3)
recv_returns(b) == now + b.rdelay

\* s.connect((host, int(port))) returns or raises
connect_step(k) ==
    /\ k \in 1..Len(threads)
    /\ threads[k].pc = "connecting"
    /\ now >= threads[k].due
    /\ LET b == endpoints[threads[k].seed]
       IN  CASE b.connect \in {"refused", "timeout"} ->
                  \* except (ConnectionError, socket.timeout): return 'offline'
                  /\ seed_status' = SetItem(seed_status, threads[k].seed, "offline")
                  /\ threads' = [threads EXCEPT ![k].pc = "done"]
             [] b.connect = "oserror" ->
                  \* not caught: the unit ends without a status
                  /\ threads' = [threads EXCEPT ![k].pc = "died"]
                  /\ UNCHANGED seed_status
             [] b.connect = "accepted" ->
                  /\ threads' = [threads EXCEPT ![k].pc = "reading",
                                                ![k].due = recv_returns(b)]
                  /\ UNCHANGED seed_status
    /\ UNCHANGED <<gwidle, endpoints, seed_nodes, orch, now, data, columns>>

\* s.recv(256) returns or raises
recv_step(k) ==
    /\ k \in 1..Len(threads)
    /\ threads[k].pc = "reading"
    /\ now >= threads[k].due
    /\ LET b == endpoints[threads[k].seed]
       IN  CASE b.recv \in {"data", "closed"} ->
                  \* s.close(); return 'online'
                  /\ seed_status' = SetItem(seed_status, threads[k].seed, "online")
                  /\ threads' = [threads EXCEPT ![k].pc = "done", ![k].sock = "closed"]
             [] b.recv = "timeout" ->
                  \* except socket.timeout: return 'stuck'
                  /\ seed_status' = SetItem(seed_status, threads[k].seed, "stuck")
                  /\ threads' = [threads EXCEPT ![k].pc = "done"]
             [] b.recv = "reset" ->
                  /\ threads' = [threads EXCEPT ![k].pc = "died"]
                  /\ UNCHANGED seed_status
    /\ UNCHANGED <<gwidle, endpoints, seed_nodes, orch, now, data, columns>>

join_timed_out_never(t) == FALSE

\* t.join(timeout=5) returned; t.is_alive()
join_timed_out(t) == Alive(t)

\* for t in threads: t.join(timeout=5)
join_thread ==
    /\ orch.pc = "join"
    /\ orch.i <= Len(threads)
    /\ ~Alive(threads[orch.i]) \/ now >= orch.deadline
    /\ orch' = [orch EXCEPT !.i = @ + 1,
                            !.deadline = now + JoinTimeout,
                            !.timeouts = IF join_timed_out(threads[orch.i])
                                         THEN @ \cup {orch.i} ELSE @]
    /\ UNCHANGED <<gwidle, endpoints, seed_nodes, seed_status, threads, now, data, columns>>

seed_entry_nodefault(seed) == <<seed, Get(seed_status, seed, "none")>>

\* one entry of the data list of views.py:567-572
seed_entry(seed) ==
    IF Get(seed_status, seed, "none") = "online" THEN <<seed, "online">>
    ELSE IF Get(seed_status, seed, "none") = "stuck" THEN <<seed, "stuck">>
    ELSE <<seed, Get(seed_status, seed, "offline")>>

\* split_columns(items, attrs) with attrs = {}: an odd list gets an empty
\* entry, then the first half is zipped with the second half
split_columns(items) ==
    LET padded == IF Len(items) % 2 = 1 THEN Append(items, <<"", "">>) ELSE items
        offset == Len(padded) \div 2
    IN  [k \in 1..offset |->
            <<padded[k][1], padded[k][2], padded[k + offset][1], padded[k + offset][2]>>]

\* data = [... for seed in seed_nodes]; data, attrs = split_columns(data, attrs)
build_data ==
    /\ orch.pc = "join"
    /\ orch.i > Len(threads)
    /\ data' = [k \in 1..Len(seed_nodes) |-> seed_entry(seed_nodes[k])]
    /\ columns' = split_columns(data')
    /\ orch' = [orch EXCEPT !.pc = "done"]
    /\ view_pc' = "done"
    /\ view_ret' = Return("page")
    /\ FrameGone
    /\ UNCHANGED <<nodes, main_node, is_online, rpc_cache, rpc_log, op, ret, gwvars,
                   rpchostvars, view_name, view_cleared, view_target, view_args,
                   view_ncalls, endpoints, seed_nodes, seed_status, threads, now>>

\* One second passes: no thread is past the end of its socket operation,
\* and the orchestrator is blocked in a join or has finished.
tick ==
    /\ \E k \in 1..Len(threads) : Alive(threads[k])
    /\ \A k \in 1..Len(threads) : Alive(threads[k]) => now < threads[k].due
    /\ \/ orch.pc = "done"
       \/ /\ orch.pc = "join"
          /\ orch.i <= Len(threads)
          /\ Alive(threads[orch.i])
          /\ now < orch.deadline
    /\ now' = now + 1
    /\ UNCHANGED <<gwidle, endpoints, seed_nodes, seed_status, threads, orch, data, columns>>

\* The response of the view is delivered.  The locals of view_seed_nodes
\* (seed_status, threads, data) go with it: the next request has its own,
\* and what a probe thread left behind still writes is read by nobody.
view_done ==
    /\ view_pc = "done"
    /\ view_pc' = "idle"
    /\ view_name' = ""
    /\ view_cleared' = Null
    /\ view_ncalls' = 0
    /\ view_ret' = NoRet
    /\ IF view_name = "view_seed_nodes"
       THEN /\ seed_nodes' = <<>>
            /\ seed_status' = EmptyDict
            /\ threads' = <<>>
            /\ orch' = [pc |-> "idle", i |-> 0, deadline |-> 0, timeouts |-> {}]
            /\ now' = 0
            /\ data' = <<>>
            /\ columns' = <<>>
            /\ UNCHANGED endpoints
       ELSE UNCHANGED probevars
    /\ UNCHANGED <<regvars, rpchostvars, is_online, rpc_cache, rpc_log, op, ret, gwvars,
                   view_pos, view_n, view_target, view_args, view_val, view_i>>

\* The states in which a seed nodes request arrives: with or without a
\* main node, whose cache is empty or holds the answer of an earlier view.
InitP ==
    /\ nodes \in { <<>>, <<NodeA>> }
    /\ main_node = IF nodes = <<>> THEN Null ELSE 1
    /\ is_online = TRUE
    /\ rpc_cache \in [1..Len(nodes) -> { {}, {CacheKey("info", <<>>, Return(Value))} }]
    /\ rpc_log = <<>>
    /\ NoRequests
    /\ InitProber

ViewSeedNodes == \E list \in SeedLists : view_seed_nodes(list)

ConnectStep == \E k \in 1..Len(threads) : connect_step(k)

RecvStep == \E k \in 1..Len(threads) : recv_step(k)

NextP ==
    \/ ViewSeedNodes
    \/ start_thread
    \/ threads_created
    \/ ConnectStep
    \/ RecvStep
    \/ join_thread
    \/ build_data
    \/ tick

SpecProber == InitP /\ [][NextP]_vars

\* the seed nodes request that runs beside the other requests: the list of
\* the chain holds the one endpoint
ViewSeedNodesOne == view_seed_nodes(<< "seed1:1776" >>)

\* the whole server: the routes of the blueprint, each request beside the
\* others
Next ==
    \/ SetRpcHost
    \/ set_rpchost_done
    \/ ViewBegin
    \/ view_step
    \/ view_call
    \/ ViewCallReturn
    \/ view_return
    \/ view_done
    \/ ViewSeedNodesOne
    \/ start_thread
    \/ threads_created
    \/ ConnectStep
    \/ RecvStep
    \/ join_thread
    \/ build_data
    \/ tick
    \/ GatewayFew
    \/ GatewayFewReturn
    \/ RequestDone

Spec == Init /\ [][Next]_vars

\* Every started thread is scheduled, every socket operation and every
\* join returns at the latest when its timeout expires.
SpecProberFair == SpecProber /\ WF_vars(NextP)

----------------------------------------------------------------------------
(* Properties of the gateway *)

LocalNodesOn(p) ==
    { i \in 1..Len(nodes) : nodes[i].is_localhost /\ nodes[i].rpc_port = p }

FirstOf(S) == CHOOSE i \in S : \A j \in S : i <= j

AllowList ==
    {"is_signing_key_active", "network_get_info", "network_get_connected_peers",
     "network_get_potential_peers", "network_get_advanced_parameters",
     "network_set_advanced_parameters"}

\* C1: every response json_rpc_call returns carries the id of the incoming
\* envelope; on the forwarded path the id of the raw upstream response is
\* replaced by it.
C1_ResponseCarriesRequestId ==
    \A s \in GwThreads :
        (op[s] = "json_rpc_call" /\ ret[s].kind = "return")
            => ("id" \in DOMAIN ret[s].value /\ ret[s].value.id = c[s].id)

C1_Witness ==
    /\ op[1] = "json_rpc_call"
    /\ Len(fwd_calls[1]) = 1
    /\ ret[1].kind = "return"
    /\ "result" \in DOMAIN ret[1].value
    /\ ret[1].value.id = 7

\* C2: every failure that occurs while the gateway handles an envelope is
\* turned into an error envelope; no invocation of json_rpc_call ends with
\* an exception escaping.
C2_NoExceptionEscapes ==
    \A s \in GwThreads : op[s] = "json_rpc_call" => ret[s].kind = "return"

\* C3: when no localhost node is registered on the envelope's wallet_port,
\* the response is the node-not-found error envelope with the request's id
\* and port, and neither a local handler nor a forwarded call is invoked.
C3_NodeNotFound ==
    \A s \in GwThreads :
        (op[s] # "idle" /\ LocalNodesOn(port[s]) = {})
            => /\ op[s] = "json_rpc_call"
               /\ ret[s] = Return([id |-> c[s].id,
                                   error |-> [message |-> "Could not find active node on port "
                                                           \o PortStr(port[s])]])
               /\ fwd_calls[s] = <<>>
               /\ local_calls[s] = <<>>

C3_Witness ==
    /\ op[1] = "json_rpc_call"
    /\ nodes = <<NodeB, NodeC>>
    /\ port[1] = 1234
    /\ c[1].id = 3
    /\ ret[1] = Return([id |-> 3,
                        error |-> [message |-> "Could not find active node on port 1234"]])

\* C4: on a resolved node, an envelope whose method is one of the six
\* allow-listed names is dispatched to the node's own method with no
\* forwarded rpc_call; every other method is forwarded exactly once.
C4_InterceptedNeverForwarded ==
    \A s \in GwThreads :
        (op[s] # "idle" /\ LocalNodesOn(port[s]) # {})
            => IF c[s].params[2] \in AllowList
               THEN /\ local_calls[s] = << [node |-> FirstOf(LocalNodesOn(port[s])),
                                           method |-> c[s].params[2],
                                           args |-> c[s].params[3]] >>
                    /\ fwd_calls[s] = <<>>
               ELSE /\ Len(fwd_calls[s]) = 1
                    /\ fwd_calls[s][1].method = c[s].params[2]
                    /\ fwd_calls[s][1].args = c[s].params[3]
                    /\ fwd_calls[s][1].port = port[s]
                    /\ local_calls[s] = <<>>

C4_Witness ==
    /\ op[1] = "json_rpc_call"
    /\ c[1].params[2] = "network_set_advanced_parameters"
    /\ Len(local_calls[1]) = 1
    /\ fwd_calls[1] = <<>>
    /\ ret[1].kind = "return"

\* C5: a key the gateway is asked to forward several times within one
\* cleared cache scope reaches the underlying client exactly once, so no
\* call occurs twice in the client's log.
C5_ForwardedOncePerKey ==
    \A i, j \in 1..Len(rpc_log) : i # j => rpc_log[i] # rpc_log[j]

\* The envelope of the request of thread s, with other forwarding credentials.
EnvelopeWith(s, pu, pp) ==
    Envelope(c[s].id, c[s].params[2], c[s].params[3], port[s], pu, pp)

Supplied(v) == IF v = "" THEN Absent ELSE v

\* C6: envelopes that differ only in proxy_user / proxy_password produce
\* the same forwarded call, made with the node's rpc_user and rpc_password,
\* and the same response; the supplied credentials appear in neither.
C6_ProxyCredentialsIgnored ==
    \A s \in GwThreads :
      op[s] # "idle"
        => /\ \A call \in { fwd_calls[s][i] : i \in 1..Len(fwd_calls[s]) } :
                /\ call.user = nodes[FirstOf(LocalNodesOn(port[s]))].rpc_user
                /\ call.password = nodes[FirstOf(LocalNodesOn(port[s]))].rpc_password
           /\ DOMAIN c[s] \cap {"proxy_user", "proxy_password"} = {}
           /\ ret[s].kind = "return"
                => DOMAIN ret[s].value \cap {"proxy_user", "proxy_password"} = {}
           /\ \A pu \in ProxyUsers \cup {Absent}, pp \in ProxyPasswords \cup {Absent} :
                LET r1 == json_rpc_call_request(
                              EnvelopeWith(s, Supplied(proxy_user[s]),
                                           Supplied(proxy_password[s])))
                    r2 == json_rpc_call_request(EnvelopeWith(s, pu, pp))
                IN  /\ r1.fwd = fwd_calls[s]
                    /\ r1.fwd = r2.fwd
                    /\ r1.local = r2.local
                    /\ r1.found = r2.found
                    /\ r1.c = r2.c
                    /\ r1.port = r2.port
                    /\ \A out \in OutcomesFor(c[s]) :
                         json_rpc_call_response(r1.c, r1.port, out)
                            = json_rpc_call_response(r2.c, r2.port, out)

C6_Witness ==
    /\ op[1] = "json_rpc_call"
    /\ proxy_user[1] = "mallory"
    /\ proxy_password[1] = "hunter2"
    /\ Len(fwd_calls[1]) = 1
    /\ fwd_calls[1][1].user = "userC"
    /\ fwd_calls[1][1].password = "pwC"
    /\ ret[1].kind = "return"

----------------------------------------------------------------------------
(* Properties of the registry *)

HasKey(node, t, h, n) ==
    /\ node.bts_type = t
    /\ node.rpc_host \o ":" \o PortStr(node.rpc_port) = h
    /\ node.name = n

NodesWithKey(t, h, n) == { i \in 1..Len(nodes) : HasKey(nodes[i], t, h, n) }

\* C7: set_rpchost with a triple that matches no registered node leaves
\* rpc.main_node as it was and returns the redirect; with a matching triple
\* it sets rpc.main_node to a node with that triple.
C7_SetRpcHost ==
    [][(rpchost_pc = "idle" /\ rpchost_pc' = "set_rpchost")
         => LET M == NodesWithKey(rpchost_args'[1], rpchost_args'[2], rpchost_args'[3])
            IN  /\ rpchost_ret' = Return([redirect |-> Url])
                /\ M = {} => main_node' = main_node
                /\ M # {} => main_node' \in M]_vars

C7_Witness ==
    /\ rpchost_pc = "set_rpchost"
    /\ NodesWithKey(rpchost_args[1], rpchost_args[2], rpchost_args[3]) = {}
    /\ main_node = 2
    /\ rpchost_ret = Return([redirect |-> Url])

\* C8: in every reachable state rpc.main_node is null or a node of the
\* registry.
C8_MainNodeRegistered ==
    main_node = Null \/ main_node \in 1..Len(nodes)

C8_Witness ==
    /\ main_node = 3
    /\ view_pc = "body"
    /\ view_cleared = 1
    /\ Len(rpc_log) = 2

NoSharedKey ==
    \A i, j \in 1..Len(nodes) :
        i # j => ~HasKey(nodes[i], nodes[j].bts_type,
                         nodes[j].rpc_host \o ":" \o PortStr(nodes[j].rpc_port),
                         nodes[j].name)

NoSharedLocalPort ==
    \A i, j \in 1..Len(nodes) :
        (i # j /\ nodes[i].is_localhost /\ nodes[j].is_localhost)
            => nodes[i].rpc_port # nodes[j].rpc_port

\* C9: in a registry without overlapping keys, find_node returns the node
\* matching type, host:port and name, find_local_node returns the localhost
\* node on the port, and each raises the not-found error when there is no
\* such node; find_local_node never returns a node that is not localhost.
C9_Lookups ==
    /\ NoSharedKey =>
         \A t \in BtsTypes, h \in Hosts, n \in Names :
            LET M == NodesWithKey(t, h, n)
                r == find_node(t, h, n)
            IN  IF M = {}
                THEN r.kind = "raise" /\ r.exc = "ValueError"
                ELSE r = Return(FirstOf(M)) /\ M = {r.value}
    /\ NoSharedLocalPort =>
         \A p \in Ports :
            LET r == find_local_node(p)
            IN  IF LocalNodesOn(p) = {}
                THEN r.kind = "raise" /\ r.exc = "ValueError"
                ELSE r = Return(FirstOf(LocalNodesOn(p))) /\ LocalNodesOn(p) = {r.value}
    /\ \A p \in Ports :
            find_local_node(p).kind = "return"
                => nodes[find_local_node(p).value].is_localhost

C9_Witness ==
    /\ nodes = <<NodeB, NodeA, NodeC>>
    /\ rpchost_pc = "set_rpchost"
    /\ rpchost_args = <<"muse", "localhost:5678", "nodeC">>
    /\ main_node = 3
    /\ find_local_node(1234) = Return(2)

----------------------------------------------------------------------------
(* Properties of the prober *)

\* C10: a unit that was still running when the orchestrator's join on it
\* timed out is abandoned: its endpoint is reported offline, whatever
\* status the unit stores later.
C10_AbandonedReportedOffline ==
    orch.pc = "done"
        => \A k \in orch.timeouts : data[k] = <<seed_nodes[k], "offline">>

Statuses == {"online", "stuck", "offline"}

\* C11: check_seed_status answers offline when the connection is refused,
\* times out, or the peer closes at once; stuck when the connection is
\* accepted and nothing arrives before the read timeout; online when the
\* connection is accepted and the peer sends bytes.
C11_Classification ==
    \A k \in 1..Len(threads) :
        threads[k].pc = "done"
            => LET b == endpoints[threads[k].seed]
                   status == seed_status[threads[k].seed]
               IN  /\ b.connect \in {"refused", "timeout"} => status = "offline"
                   /\ (b.connect = "accepted" /\ b.recv = "closed") => status = "offline"
                   /\ (b.connect = "accepted" /\ b.recv = "timeout") => status = "stuck"
                   /\ (b.connect = "accepted" /\ b.recv = "data") => status = "online"

\* the status check_seed_status returns for an endpoint, "none" when the
\* unit ends with an exception
Returned(b) ==
    IF b.connect \in {"refused", "timeout"} THEN "offline"
    ELSE IF b.connect = "oserror" \/ b.recv = "reset" THEN "none"
    ELSE IF b.recv = "timeout" THEN "stuck"
    ELSE "online"

Duration(b) == IF b.connect = "accepted" THEN b.cdelay + b.rdelay ELSE b.cdelay

Reported(st) == IF st = "none" THEN "offline" ELSE st

\* the statuses a batch made of this endpoint alone reports for it
StatusAlone(b) ==
    IF Duration(b) < JoinTimeout THEN { Reported(Returned(b)) }
    ELSE IF Duration(b) = JoinTimeout THEN { Reported(Returned(b)), "offline" }
    ELSE { "offline" }

\* C12: the output has one entry per endpoint of the list, in the list's
\* order, and the status of an entry depends on its endpoint only: it is
\* the status the endpoint gets in a batch of its own, whatever the other
\* units do and in whatever order they complete.
C12_StatusByEndpoint ==
    orch.pc = "done"
        => /\ Len(data) = Len(seed_nodes)
           /\ \A k \in 1..Len(seed_nodes) :
                /\ data[k][1] = seed_nodes[k]
                /\ data[k][2] \in StatusAlone(endpoints[seed_nodes[k]])

\* C13: the orchestration, once the wrapper has let the request into the
\* body, completes and reports a status for every endpoint of the list; an
\* endpoint for which no unit recorded a result is reported offline.
C13_EveryEndpointReported ==
    main_node # Null =>
    <>[](/\ orch.pc = "done"
         /\ Range(seed_nodes) = DOMAIN endpoints
         /\ Len(data) = Len(seed_nodes)
         /\ \A k \in 1..Len(seed_nodes) :
              /\ data[k][1] = seed_nodes[k]
              /\ data[k][2] \in Statuses
              /\ seed_nodes[k] \notin DOMAIN seed_status => data[k][2] = "offline")

C13_Witness ==
    /\ orch.pc = "done"
    /\ Len(seed_nodes) = 2
    /\ threads[1].pc = "died"
    /\ seed_nodes[1] \notin DOMAIN seed_status
    /\ data[1] = <<seed_nodes[1], "offline">>
    /\ data[2][2] = "online"

\* C14: with a unit that hangs (connected, nothing received, never closed)
\* the orchestrator's waiting, from the start of the batch to the end of
\* its last join, is bounded by one join deadline plus a constant, for
\* every number of endpoints.
C14_BatchLatency ==
    orch.pc \in {"start", "join"} => now <= JoinTimeout + 1

C14_Witness ==
    /\ orch.pc = "done"
    /\ Len(seed_nodes) = 2
    /\ \A k \in 1..2 : endpoints[seed_nodes[k]].recv = "timeout"
    /\ \A k \in 1..2 : endpoints[seed_nodes[k]].cdelay = SocketTimeout
    /\ orch.timeouts = {1}
    /\ now = JoinTimeout + 1

\* C15: the socket is closed on every terminal transition of
\* check_seed_status: on the offline, the stuck and the online return.
C15_SocketClosed ==
    \A k \in 1..Len(threads) : threads[k].pc = "done" => threads[k].sock = "closed"

\* C18: connect and read share one timeout window of 3 time units, so a
\* unit, started at time 0, has reached a terminal state after 3 time units.
C18_TerminalWithinTimeout ==
    \A k \in 1..Len(threads) : Alive(threads[k]) => now <= SocketTimeout

\* C19: every unit is started before the orchestrator waits on any unit;
\* no start comes after a join.
C19_AllStartedBeforeJoin ==
    /\ orch.pc \in {"join", "done"} => Len(threads) = Len(seed_nodes)
    /\ orch.pc = "start" => (orch.timeouts = {} /\ orch.deadline = 0)
    /\ \A k \in 1..Len(threads) : threads[k].seed = seed_nodes[k]

C19_Witness ==
    /\ orch.pc = "join"
    /\ orch.i = 1
    /\ Len(threads) = 2
    /\ threads[1].pc = "done"
    /\ Alive(threads[2])

\* C20: in one batch each endpoint address is probed by one connect
\* attempt, also when the list holds the address more than once.
C20_OneAttemptPerAddress ==
    \A a \in Seeds :
        Cardinality({ k \in 1..Len(threads) : threads[k].seed = a }) <= 1

----------------------------------------------------------------------------
(* Properties of the gateway's failures and of clear_rpc_cache *)

\* the forwarded call of the request of thread s failed to reach the client
ConnectionFailed(s) ==
    /\ op[s] = "json_rpc_call"
    /\ fwd_calls[s] # <<>>
    /\ \/ ret[s].kind = "raise" /\ ret[s].exc = "ConnectionError"
       \/ /\ ret[s].kind = "return"
          /\ "error" \in DOMAIN ret[s].value
          /\ Contains(ret[s].value.error.message, "Connection aborted")

\* C16: when the forwarded call fails with a connection error, the gateway
\* returns an error envelope and core.is_online is false afterwards.
C16_ConnectionErrorMarksOffline ==
    \A s \in GwThreads :
        ConnectionFailed(s)
            => /\ ret[s].kind = "return"
               /\ "error" \in DOMAIN ret[s].value
               /\ is_online = FALSE

\* C17: a view wrapped by clear_rpc_cache empties the cache of the main
\* node once per request, when the request enters the view and before the
\* body has issued a call; no other step removes an entry of a cache.
C17_CacheClearedOncePerRequest ==
    [][ /\ (view_pc = "idle" /\ view_pc' # "idle" /\ main_node # Null)
            => /\ view_pc' = "body"
               /\ rpc_cache' = [rpc_cache EXCEPT ![main_node] = {}]
               /\ view_cleared' = main_node
               /\ view_ncalls' = 0
               /\ view_n' = Null
               /\ rpc_log' = rpc_log
        /\ (view_pc # "body" /\ view_pc' = "body") => view_pc \in {"idle", "rpc_call"}
        /\ view_pc' = "rpc_call" => view_pc \in {"body", "rpc_call"}
        /\ (\E i \in DOMAIN rpc_cache : ~(rpc_cache[i] \subseteq rpc_cache'[i]))
            => (view_pc = "idle" /\ view_pc' = "body")
        /\ view_ncalls' > view_ncalls => view_pc \in {"body", "rpc_call"}
      ]_vars

C17_Witness ==
    /\ nodes = <<NodeB, NodeC>>
    /\ view_name = "view_info"
    /\ view_pc = "body"
    /\ view_cleared = main_node
    /\ view_n = main_node
    /\ view_ncalls = 1
    /\ Len(rpc_log) = 2
    /\ rpc_log[1] = rpc_log[2]
    /\ rpc_log[1].method = "info"
    /\ rpc_log[1].user = nodes[main_node].rpc_user
    /\ rpc_cache[main_node] # {}

----------------------------------------------------------------------------
(* Properties of the gateway's not-found answer, of the main node under
   concurrent requests, and of catch_error *)

\* C21: the gateway answers 'Could not find active node on port <port>'
\* only when find_local_node failed for the port of the request; with a
\* localhost node registered on the port, a failure of the node's handler
\* or of the forwarded call is not reported with that message.
C21_NotFoundOnlyWhenLookupFailed ==
    \A s \in GwThreads :
        ( /\ op[s] = "json_rpc_call"
          /\ ret[s].kind = "return"
          /\ "error" \in DOMAIN ret[s].value
          /\ ret[s].value.error.message = NotFoundMessage(port[s]) )
            => find_local_node(port[s]).kind = "raise"

\* C22: whatever set_rpchost requests interleave with a view request, every
\* call the view body makes through rpc.main_node targets the node whose
\* cache clear_rpc_cache emptied at the start of that request.
C22_BodyTargetsClearedNode ==
    /\ view_pc = "rpc_call" => view_target = view_cleared
    /\ (view_pc \in {"body", "rpc_call"} /\ view_n # Null) => view_n = view_cleared

\* requests ConnectionError, or an RPCError that says 'Connection aborted'
TransportError(e) ==
    \/ e.exc = "ConnectionError"
    \/ e.exc = "RPCError" /\ Contains(e.msg, "Connection aborted")

Pages == {"offline", "unauthorized", "server_error"}

\* what the body of a view returns itself
BodyPages == {"page", "redirect", "unauthorized", "error"}

\* C23: catch_error sets core.is_online to false exactly when the wrapped
\* function raised a transport connection error; on a normal return and on
\* every other exception core.is_online keeps its value; the exception of
\* the wrapped function never leaves the wrapper, a page is returned.
C23_IsOnlineFrame ==
    [][ /\ \A e \in Raises :
            /\ catch_error(e).online = (IF TransportError(e) THEN FALSE ELSE is_online)
            /\ catch_error(e).page \in Pages
            /\ catch_error(e).page = "offline" <=> TransportError(e)
        /\ (view_pc \in {"body", "rpc_call"} /\ view_pc' = "done")
            => /\ view_ret'.kind = "return"
               /\ view_ret'.value = "offline" => is_online' = FALSE
               /\ view_ret'.value # "offline" => is_online' = is_online
               /\ view_pc = "body" => view_ret'.value \in BodyPages
               /\ view_pc = "rpc_call" => view_ret'.value \in Pages
        /\ ~(view_pc = "rpc_call" /\ view_pc' = "done") => is_online' = is_online
      ]_vars

C23_Witness ==
    /\ view_pc = "done"
    /\ view_ret = Return("offline")
    /\ is_online = FALSE
    /\ view_ncalls = 1

====
